---- MODULE Spec2Model ----
(***************************************************************************)
(* The C boundary of fast_image (src/native/src/ffi.rs over api.rs):       *)
(* opaque image handles (Box<DynamicImage> leaked with Box::into_raw),     *)
(* encoded buffers (a boxed slice leaked with mem::forget), the error-code *)
(* mapping and the enum bridge.  The image crate (decoders, encoders,      *)
(* pixel kernels) is the collaborator: its outcome is a nondeterministic   *)
(* choice among a typed error and a result of the documented shape.        *)
(***************************************************************************)
EXTENDS Integers, FiniteSets, Sequences, TLC

\* ------------------------------------------------------------------ bounds
MaxAddr == 2        \* image allocations the heap can hold at once
MaxBuf == 1         \* buffer allocations the heap can hold at once
MaxDim == 2         \* largest width/height decoded or requested
MaxLen == 1         \* largest encoded length (bytes)

NULL == 0
Addr == 1 .. MaxAddr
BufAddr == 1 .. MaxBuf
Dim == 1 .. MaxDim

\* ------------------------------------------------------- error taxonomy
Success == 0
InvalidPath == 1
UnsupportedFormat == 2
DecodingError == 3
EncodingError == 4
IoError == 5
InvalidDimensions == 6
InvalidPointer == 7
Unknown == 99

ImageErrorCode ==
    {Success, InvalidPath, UnsupportedFormat, DecodingError, EncodingError,
     IoError, InvalidDimensions, InvalidPointer, Unknown}

\* image::ImageError's variants
ImageError == {"Decoding", "Encoding", "Parameter", "Limits", "Unsupported", "IoError"}

\* error_to_code without its Limits arm
error_to_code_no_limits(err) ==
    CASE err = "Decoding" -> DecodingError
      [] err = "Encoding" -> EncodingError
      [] err = "IoError" -> IoError
      [] err = "Unsupported" -> UnsupportedFormat
      [] OTHER -> Unknown

error_to_code(err) ==
    CASE err = "Decoding" -> DecodingError
      [] err = "Encoding" -> EncodingError
      [] err = "IoError" -> IoError
      [] err = "Limits" -> InvalidDimensions
      [] err = "Unsupported" -> UnsupportedFormat
      [] OTHER -> Unknown

\* ----------------------------------------------------------- enum bridge
Png == 0
Jpeg == 1
Gif == 2
WebP == 3
Bmp == 4
Ico == 5
Tiff == 6

ImageFormatEnum == {Png, Jpeg, Gif, WebP, Bmp, Ico, Tiff}

\* image::ImageFormat's variants
ImageFormat ==
    {"Png", "Jpeg", "Gif", "WebP", "Pnm", "Tiff", "Tga", "Dds", "Bmp", "Ico",
     "Hdr", "OpenExr", "Farbfeld", "Avif", "Qoi"}

\* to_image_format with the Ico arm returning the Bmp arm's format
to_image_format_dup(tag) ==
    CASE tag = Png -> "Png"
      [] tag = Jpeg -> "Jpeg"
      [] tag = Gif -> "Gif"
      [] tag = WebP -> "WebP"
      [] tag = Bmp -> "Bmp"
      [] tag = Ico -> "Bmp"
      [] tag = Tiff -> "Tiff"

to_image_format(tag) ==
    CASE tag = Png -> "Png"
      [] tag = Jpeg -> "Jpeg"
      [] tag = Gif -> "Gif"
      [] tag = WebP -> "WebP"
      [] tag = Bmp -> "Bmp"
      [] tag = Ico -> "Ico"
      [] tag = Tiff -> "Tiff"

NONE == -1    \* Option::None of from_image_format

from_image_format(format) ==
    CASE format = "Png" -> Png
      [] format = "Jpeg" -> Jpeg
      [] format = "Gif" -> Gif
      [] format = "WebP" -> WebP
      [] format = "Bmp" -> Bmp
      [] format = "Ico" -> Ico
      [] format = "Tiff" -> Tiff
      [] OTHER -> NONE

Nearest == 0
Triangle == 1
CatmullRom == 2
Gaussian == 3
Lanczos3 == 4

FilterTypeEnum == {Nearest, Triangle, CatmullRom, Gaussian, Lanczos3}

\* image::imageops::FilterType's variants
FilterType == {"Nearest", "Triangle", "CatmullRom", "Gaussian", "Lanczos3"}

to_filter_type(tag) ==
    CASE tag = Nearest -> "Nearest"
      [] tag = Triangle -> "Triangle"
      [] tag = CatmullRom -> "CatmullRom"
      [] tag = Gaussian -> "Gaussian"
      [] tag = Lanczos3 -> "Lanczos3"

\* ---------------------------------------------------------------- images
\* image::ColorType's variants
ColorType ==
    {"L8", "La8", "Rgb8", "Rgba8", "L16", "La16", "Rgb16", "Rgba16", "Rgb32F", "Rgba32F"}

\* The colour models the modelled decoders produce.
DecodedColor == {"Rgb8"}

\* A DynamicImage: its dimensions, its colour model and its pixel content,
\* which is the decoded content (neg = FALSE) or its inversion (neg = TRUE).
Image == [width : Dim, height : Dim, color : ColorType, neg : BOOLEAN]

Decoded == [width : Dim, height : Dim, color : DecodedColor, neg : {FALSE}]

color_tag(c) ==
    CASE c \in {"L8", "L16"} -> 0
      [] c \in {"La8", "La16"} -> 1
      [] c \in {"Rgb8", "Rgb16", "Rgb32F"} -> 2
      [] c \in {"Rgba8", "Rgba16", "Rgba32F"} -> 3
      [] OTHER -> 3

\* ImageMetadata as the triple <<width, height, color_type>>
get_metadata(img) == <<img.width, img.height, color_tag(img.color)>>

Max(a, b) == IF a >= b THEN a ELSE b
Min(a, b) == IF a <= b THEN a ELSE b

\* (a / b).round() for a >= 0, b > 0: half away from zero
Round(a, b) == (2 * a + b) \div (2 * b)

\* image's resize_dimensions: the scale is the smaller (fit) or the larger
\* (fill) of nwidth/width and nheight/height; each side is at least 1.
resize_dimensions(width, height, nwidth, nheight, fill) ==
    LET wsmaller == nwidth * height <= nheight * width
        useW == IF fill THEN ~wsmaller ELSE wsmaller
    IN  IF useW
        THEN <<Max(nwidth, 1), Max(Round(height * nwidth, width), 1)>>
        ELSE <<Max(Round(width * nheight, height), 1), Max(nheight, 1)>>

WithDims(img, d) == [img EXCEPT !.width = d[1], !.height = d[2]]

\* resize_exact delegating to the aspect-preserving resize
resize_exact_keep_aspect(img, width, height, filter) ==
    WithDims(img, resize_dimensions(img.width, img.height, width, height, FALSE))

resize_exact(img, width, height, filter) == WithDims(img, <<width, height>>)

resize_image(img, width, height, filter) ==
    IF <<width, height>> = <<img.width, img.height>>
    THEN img
    ELSE resize_exact(img,
             resize_dimensions(img.width, img.height, width, height, FALSE)[1],
             resize_dimensions(img.width, img.height, width, height, FALSE)[2],
             filter)

\* image's crop: the rectangle is clamped to the image
crop_dims(img, x, y, width, height) ==
    LET cx == Min(x, img.width)
        cy == Min(y, img.height)
    IN  <<Min(width, img.width - cx), Min(height, img.height - cy)>>

crop_image(img, x, y, width, height) == WithDims(img, crop_dims(img, x, y, width, height))

\* api.rs resize_to_fit calls DynamicImage::resize_to_fill: scale to cover
\* the box, then crop the overflow around the centre.
resize_to_fit(img, width, height, filter) ==
    LET d == resize_dimensions(img.width, img.height, width, height, TRUE)
        mid == resize_exact(img, d[1], d[2], filter)
    IN  IF width * d[2] > d[1] * height
        THEN crop_image(mid, 0, (d[2] - height) \div 2, width, height)
        ELSE crop_image(mid, (d[1] - width) \div 2, 0, width, height)

rotate_90(img) == WithDims(img, <<img.height, img.width>>)
rotate_180(img) == img
rotate_270(img) == WithDims(img, <<img.height, img.width>>)
flip_horizontal(img) == img
flip_vertical(img) == img
blur_image(img, sigma) == img
adjust_brightness(img, value) == img
adjust_contrast(img, c) == img
grayscale(img) == [img EXCEPT !.color = "L8"]
invert(img) == [img EXCEPT !.neg = ~img.neg]

\* The tags the calls are enumerated with
SomeFilters == {Nearest, Lanczos3}
SomeFormats == {Png, Jpeg}

\* ----------------------------------------------------------- collaborator
\* Result<_, ImageError> of a collaborator call: Ok(img), Ok(len) or Err(err)
NoImage == [width |-> 1, height |-> 1, color |-> "L8", neg |-> FALSE]
OkImage(img) == [ok |-> TRUE, img |-> img, len |-> 0, cap |-> 0, err |-> ""]
OkBytes(n, c) == [ok |-> TRUE, img |-> NoImage, len |-> n, cap |-> c, err |-> ""]
OkUnit == [ok |-> TRUE, img |-> NoImage, len |-> 0, cap |-> 0, err |-> ""]
Err(e) == [ok |-> FALSE, img |-> NoImage, len |-> 0, cap |-> 0, err |-> e]
\* Result<ImageFormat, _> and Result<ImageFormatEnum, _>
OkFormat(f) == [ok |-> TRUE, format |-> f, err |-> ""]
ErrFormat(e) == [ok |-> FALSE, format |-> "", err |-> e]
OkTag(t) == [ok |-> TRUE, tag |-> t, err |-> ""]
ErrTag(e) == [ok |-> FALSE, tag |-> NONE, err |-> e]

Paths == {"a.png"}
PathArg == {"NULL", "NON_UTF8"} \cup Paths

\* What a byte span holds: an image in a format the boundary exposes, one in
\* a format it does not, a truncated file, or nothing recognisable.
Bytes == {"png", "pnm", "truncated_png", "garbage"}

\* image::open: the decoded file, or why it could not be read
load_image(path) ==
    {OkImage(i) : i \in Decoded} \cup {Err(e) : e \in {"IoError", "Decoding", "Unsupported", "Limits"}}

\* image::load_from_memory: the format is guessed from the signature
load_image_from_memory(data) ==
    CASE data \in {"png", "pnm"} -> {OkImage(i) : i \in Decoded} \cup {Err("Limits")}
      [] data = "truncated_png" -> {Err("Decoding")}
      [] OTHER -> {Err("Unsupported")}

\* image::load_from_memory_with_format: the named decoder reads the bytes
load_image_from_memory_with_format(data, format) ==
    CASE data = "png" /\ format = "Png" -> {OkImage(i) : i \in Decoded} \cup {Err("Limits")}
      [] OTHER -> {Err("Decoding"), Err("Unsupported")}

\* image::guess_format by signature
image_guess_format(data) ==
    CASE data \in {"png", "truncated_png"} -> OkFormat("Png")
      [] data = "pnm" -> OkFormat("Pnm")
      [] OTHER -> ErrFormat("Unsupported")

guess_image_format(data) ==
    LET g == image_guess_format(data)
    IN  IF ~g.ok THEN ErrTag(g.err)
        ELSE IF from_image_format(g.format) = NONE THEN ErrTag("Unsupported")
        ELSE OkTag(from_image_format(g.format))

\* DynamicImage::save: the file is created, then the image is encoded
save_image(img, path) == {OkUnit} \cup {Err(e) : e \in {"IoError", "Encoding", "Unsupported"}}

\* DynamicImage::write_to into a Vec: every encoder writes its signature
\* first, so an Ok buffer holds at least one byte; the Vec's capacity is its
\* length plus what its last growth left spare (cap).
encode_image(img, format) ==
    {OkBytes(n, c) : n \in 1 .. MaxLen, c \in 0 .. 1} \cup {Err(e) : e \in {"Encoding", "Unsupported", "Parameter"}}

\* ------------------------------------------------------------------ state
VARIABLES
    heap,       \* the leaked Box<DynamicImage> allocations: address -> image
    owned,      \* the handles the caller was given and has not freed
    bufs,       \* the leaked byte allocations: address -> allocated size
    outBufs,    \* the <<pointer, length>> pairs the caller was given and has not released
    last,       \* the last boundary call: its arguments' shape and what it returned
    probe,      \* the last application of a mapping of the enum bridge or the error taxonomy
    thr,        \* per thread: where it is in its call, the call, and what it returned
    scratch,    \* the locals of the calls in flight, one slot per stack
    mine,       \* per thread: the handles it calls the boundary on
    expect      \* per handle: the image it holds when its owner's calls run one at a time

vars == <<heap, owned, bufs, outBufs, last, probe, thr, scratch, mine, expect>>

Threads == {1, 2}

NoCode == -1          \* the call returns no status code
POISON == <<>>        \* an output slot the call did not write

NoBuf == <<NULL, 0>>

\* What a call returned: its status code, the handle returned, the output
\* slots, and the image its api call was handed
Res(code, ret, out, saw) == [code |-> code, ret |-> ret, out |-> out, saw |-> saw]
NoRes == Res(NoCode, NULL, POISON, <<>>)
Idle == [pc |-> "idle", op |-> "", h |-> NULL, res |-> NoRes, seq |-> NoRes]

\* op: the operation; h: its handle argument; buf: its buffer argument;
\* args: "ok", or what is invalid about the arguments ("null", "zero_len",
\* "non_utf8"); code: the status code; ret: the handle returned; out: what
\* the output slots hold after the call; collab: the api function called;
\* file: the path the call created a file at.
CallFile(op, h, buf, args, code, ret, out, collab, file) ==
    [op |-> op, h |-> h, buf |-> buf, args |-> args, code |-> code, ret |-> ret,
     out |-> out, collab |-> collab, file |-> file]

CallBuf(op, h, buf, args, code, ret, out, collab) ==
    CallFile(op, h, buf, args, code, ret, out, collab, "")

Call(op, h, args, code, ret, out, collab) ==
    CallBuf(op, h, NoBuf, args, code, ret, out, collab)

NoProbe ==
    [fn |-> "", tag |-> NONE, tag2 |-> NONE, format |-> "", format2 |-> "", back |-> NONE,
     err |-> "", err2 |-> "", code |-> NoCode, code2 |-> NoCode]

Init ==
    /\ probe = NoProbe
    /\ thr = [t \in Threads |-> Idle]
    /\ scratch = [t \in Threads |-> <<>>]
    /\ mine = [t \in Threads |-> {}]
    /\ expect = <<>>
    /\ heap = <<>>
    /\ owned = {}
    /\ bufs = <<>>
    /\ outBufs = {}
    /\ last = Call("init", NULL, "ok", NoCode, NULL, POISON, "none")

\* The handle arguments a caller that keeps the preconditions can pass
Handles == {NULL} \cup owned

\* Box_new handing out any address, live or not
Box_new_any(hp) == Addr

\* Box::new: the allocator returns an address that holds no live allocation
Box_new(hp) == Addr \ DOMAIN hp

\* Box::into_raw(Box::new(img)): the image moves to the heap, its address is returned
Box_into_raw(hp, a, img) == [x \in DOMAIN hp \cup {a} |-> IF x = a THEN img ELSE hp[x]]

\* Box::from_raw(handle) dropped: the allocation is freed
Box_from_raw_drop(hp, a) == [x \in DOMAIN hp \ {a} |-> hp[x]]

\* borrow with the null handle read as an empty image
borrow_null_as_empty(hp, h) == IF h = NULL THEN <<NoImage>> ELSE <<hp[h]>>

\* `if handle.is_null() { return null }` then `&*(handle as *const DynamicImage)`:
\* the borrowed image, or nothing for the null handle
borrow(hp, h) == IF h = NULL THEN <<>> ELSE <<hp[h]>>

\* to_str replaced by a lossy conversion, which never fails
to_str_lossy(path) == <<path>>

\* CStr::from_ptr(path).to_str()
to_str(path) == IF path = "NON_UTF8" THEN <<>> ELSE <<path>>

Same == UNCHANGED <<heap, owned, bufs, outBufs>>

\* The call returns: what the caller sees of it
Ret(call) == last' = call /\ UNCHANGED <<probe, thr, scratch, mine, expect>>

\* What is invalid about a call's arguments, if anything: a null pointer,
\* an empty byte span, a path that is not UTF-8
ArgClass(anyNull, zeroLen, path) ==
    IF anyNull THEN "null"
    ELSE IF zeroLen THEN "zero_len"
    ELSE IF path = "NON_UTF8" THEN "non_utf8"
    ELSE "ok"

\* A call that returns before it delegates
Rejected(op, h, args, code) ==
    /\ Ret(Call(op, h, args, code, NULL, POISON, "none"))
    /\ Same

\* ------------------------------------------------------ memory management
\* No call hands out a string, so a caller that keeps the preconditions has
\* only the null pointer to pass.
fast_image_free_string ==
    \E ptr \in {NULL} :
        /\ Ret(Call("free_string", NULL, ArgClass(ptr = NULL, FALSE, ""), NoCode, NULL,
                    POISON, "none"))
        /\ Same

\* free_buffer_guard without its length test
free_buffer_guard_ptr_only(ptr, len) == ptr # NULL

\* `if !ptr.is_null() && len > 0`
free_buffer_guard(ptr, len) == ptr # NULL /\ len > 0

\* Vec::from_raw_parts(ptr, len, cap) dropped: the allocator frees the block
\* when told its true size; told another size, the behaviour is undefined
\* (the block is freed or the heap keeps it).
Vec_from_raw_parts_drop(bf, ptr, len, cap) ==
    IF ptr \in DOMAIN bf /\ bf[ptr] = cap
    THEN {[x \in DOMAIN bf \ {ptr} |-> bf[x]]}
    ELSE {bf, [x \in DOMAIN bf \ {ptr} |-> bf[x]]}

\* The pairs a caller may pass: one it was given, a null pointer, a zero length
FreeBufferArgs ==
    outBufs \cup {<<NULL, n>> : n \in 0 .. MaxLen} \cup {<<b[1], 0>> : b \in outBufs}

fast_image_free_buffer ==
    \E arg \in FreeBufferArgs :
        LET ptr == arg[1]
            len == arg[2]
        IN  /\ IF free_buffer_guard(ptr, len)
               THEN bufs' \in Vec_from_raw_parts_drop(bufs, ptr, len, len)
               ELSE bufs' = bufs
            /\ outBufs' = outBufs \ {arg}
            /\ Ret(CallBuf("free_buffer", NULL, arg, ArgClass(ptr = NULL, len = 0, ""),
                           NoCode, NULL, POISON, "none"))
            /\ UNCHANGED <<heap, owned>>

fast_image_free ==
    \E handle \in Handles :
        /\ heap' = IF handle # NULL THEN Box_from_raw_drop(heap, handle) ELSE heap
        /\ owned' = owned \ {handle}
        /\ Ret(Call("free", handle, ArgClass(handle = NULL, FALSE, ""), NoCode, NULL,
                    POISON, "none"))
        /\ UNCHANGED <<bufs, outBufs>>

\* ------------------------------------------------------------------ loading
\* A decoded image moves to the heap and its address is the handle; a
\* failure is the null handle.
Loaded(op, args, collab, results) ==
    \E r \in results :
        IF r.ok
        THEN \E a \in Box_new(heap) :
                /\ heap' = Box_into_raw(heap, a, r.img)
                /\ owned' = owned \cup {a}
                /\ Ret(Call(op, NULL, args, NoCode, a, POISON, collab))
                /\ UNCHANGED <<bufs, outBufs>>
        ELSE /\ Ret(Call(op, NULL, args, NoCode, NULL, POISON, collab))
             /\ Same

fast_image_load ==
    \E path \in PathArg :
        LET args == ArgClass(path = "NULL", FALSE, path)
        IN  IF path = "NULL" THEN Rejected("load", NULL, args, NoCode)
            ELSE IF to_str(path) = <<>> THEN Rejected("load", NULL, args, NoCode)
            ELSE Loaded("load", args, "load_image", load_image(to_str(path)[1]))

\* A byte span argument: its pointer (null or not), its length and its content
SpanArg == {<<"NULL", 0, "garbage">>, <<"NULL", 1, "garbage">>, <<"PTR", 0, "garbage">>}
               \cup {<<"PTR", 1, d>> : d \in Bytes}

\* `data.is_null() || len == 0`
span_invalid(span) == span[1] = "NULL" \/ span[2] = 0

fast_image_load_from_memory ==
    \E span \in SpanArg :
        LET args == ArgClass(span[1] = "NULL", span[2] = 0, "")
        IN  IF span_invalid(span)
            THEN Rejected("load_from_memory", NULL, args, NoCode)
            ELSE Loaded("load_from_memory", args, "load_image_from_memory",
                        load_image_from_memory(span[3]))

fast_image_load_from_memory_with_format ==
    \E span \in SpanArg, format \in SomeFormats :
        LET args == ArgClass(span[1] = "NULL", span[2] = 0, "")
        IN  IF span_invalid(span)
            THEN Rejected("load_from_memory_with_format", NULL, args, NoCode)
            ELSE Loaded("load_from_memory_with_format", args,
                        "load_image_from_memory_with_format",
                        load_image_from_memory_with_format(span[3], to_image_format(format)))

\* --------------------------------------------------------- format detection
PtrArg == {"NULL", "PTR"}

\* What the call leaves in *out_format: written on Ok only
guess_format_out(r) == IF r.ok THEN <<r.tag>> ELSE POISON

fast_image_guess_format ==
    \E span \in SpanArg, out_format \in PtrArg :
        LET args == ArgClass(span[1] = "NULL" \/ out_format = "NULL", span[2] = 0, "")
        IN  IF span_invalid(span) \/ out_format = "NULL"
            THEN Rejected("guess_format", NULL, args, InvalidPointer)
            ELSE LET r == guess_image_format(span[3])
                 IN  /\ Ret(Call("guess_format", NULL, args,
                                 IF r.ok THEN Success ELSE error_to_code(r.err),
                                 NULL, guess_format_out(r), "guess_image_format"))
                     /\ Same

\* ------------------------------------------------------------------- saving
fast_image_save ==
    \E handle \in Handles, path \in PathArg :
        LET args == ArgClass(handle = NULL \/ path = "NULL", FALSE, path)
        IN  IF handle = NULL \/ path = "NULL"
            THEN Rejected("save", handle, args, InvalidPointer)
            ELSE IF to_str(path) = <<>>
            THEN Rejected("save", handle, args, InvalidPath)
            ELSE \E r \in save_image(heap[handle], to_str(path)[1]) :
                    /\ Ret(CallFile("save", handle, NoBuf, args,
                                    IF r.ok THEN Success ELSE error_to_code(r.err),
                                    NULL, POISON, "save_image",
                                    IF r.ok \/ r.err = "Encoding" THEN to_str(path)[1] ELSE ""))
                    /\ Same

\* into_boxed_slice left out: the allocation keeps the Vec's capacity
into_boxed_slice_skipped(len, spare) == len + spare

\* buffer.into_boxed_slice(): the allocation is shrunk to the length
into_boxed_slice(len, spare) == len

\* encode_out with the slots cleared on the failure path
encode_out_cleared(r, ptr) == IF r.ok THEN <<ptr, r.len>> ELSE <<NULL, 0>>

\* What the call leaves in *out_data and *out_len: written on Ok only
encode_out(r, ptr) == IF r.ok THEN <<ptr, r.len>> ELSE POISON

fast_image_encode ==
    \E handle \in Handles, format \in SomeFormats, out_data \in PtrArg, out_len \in PtrArg :
        LET args == ArgClass(handle = NULL \/ out_data = "NULL" \/ out_len = "NULL", FALSE, "")
        IN  IF handle = NULL \/ out_data = "NULL" \/ out_len = "NULL"
            THEN Rejected("encode", handle, args, InvalidPointer)
            ELSE \E r \in encode_image(heap[handle], to_image_format(format)) :
                    IF r.ok
                    THEN \E ptr \in BufAddr \ DOMAIN bufs :
                            /\ bufs' = [x \in DOMAIN bufs \cup {ptr} |->
                                           IF x = ptr THEN into_boxed_slice(r.len, r.cap)
                                           ELSE bufs[x]]
                            /\ outBufs' = outBufs \cup {encode_out(r, ptr)}
                            /\ Ret(CallBuf("encode", handle, <<ptr, r.len>>, args, Success,
                                           NULL, encode_out(r, ptr), "encode_image"))
                            /\ UNCHANGED <<heap, owned>>
                    ELSE /\ Ret(Call("encode", handle, args, error_to_code(r.err), NULL,
                                     encode_out(r, NULL), "encode_image"))
                         /\ Same

\* -------------------------------------------------------------- information
fast_image_get_metadata ==
    \E handle \in Handles, out_metadata \in PtrArg :
        LET args == ArgClass(handle = NULL \/ out_metadata = "NULL", FALSE, "")
        IN  IF handle = NULL \/ out_metadata = "NULL"
            THEN Rejected("get_metadata", handle, args, InvalidPointer)
            ELSE /\ Ret(Call("get_metadata", handle, args, Success, NULL,
                             get_metadata(heap[handle]), "get_metadata"))
                 /\ Same

\* ---------------------------------------------------------- transformations
Params(x, y, w, h, f) == [x |-> x, y |-> y, w |-> w, h |-> h, f |-> f]
NoParams == Params(0, 0, 0, 0, "")

\* The api function each transform delegates to
apply(op, img, p) ==
    CASE op = "resize" -> resize_image(img, p.w, p.h, p.f)
      [] op = "resize_exact" -> resize_exact(img, p.w, p.h, p.f)
      [] op = "resize_to_fit" -> resize_to_fit(img, p.w, p.h, p.f)
      [] op = "crop" -> crop_image(img, p.x, p.y, p.w, p.h)
      [] op = "rotate_90" -> rotate_90(img)
      [] op = "rotate_180" -> rotate_180(img)
      [] op = "rotate_270" -> rotate_270(img)
      [] op = "flip_horizontal" -> flip_horizontal(img)
      [] op = "flip_vertical" -> flip_vertical(img)
      [] op = "blur" -> blur_image(img, p.x)
      [] op = "brightness" -> adjust_brightness(img, p.x)
      [] op = "contrast" -> adjust_contrast(img, p.x)
      [] op = "grayscale" -> grayscale(img)

TransformOps ==
    {"resize", "resize_exact", "resize_to_fit", "crop", "rotate_90", "rotate_180",
     "rotate_270", "flip_horizontal", "flip_vertical", "blur", "brightness", "contrast",
     "grayscale"}

\* The shape every transform shares: null check, borrow, delegate, and the
\* result moved to the heap as a new handle.
Transform(op, handle, p) ==
    LET img == borrow(heap, handle)
        args == ArgClass(handle = NULL, FALSE, "")
    IN  IF img = <<>>
        THEN Rejected(op, handle, args, NoCode)
        ELSE \E a \in Box_new(heap) :
                /\ heap' = Box_into_raw(heap, a, apply(op, img[1], p))
                /\ owned' = owned \cup {a}
                /\ Ret(Call(op, handle, args, NoCode, a, POISON, op))
                /\ UNCHANGED <<bufs, outBufs>>

\* Parameters of blur (sigma), brightness (value) and contrast (c)
Amount == {0, 1}

fast_image_resize ==
    \E handle \in Handles, width \in Dim, height \in Dim, filter \in SomeFilters :
        Transform("resize", handle, Params(0, 0, width, height, to_filter_type(filter)))

fast_image_resize_exact ==
    \E handle \in Handles, width \in Dim, height \in Dim, filter \in SomeFilters :
        Transform("resize_exact", handle, Params(0, 0, width, height, to_filter_type(filter)))

fast_image_resize_to_fit ==
    \E handle \in Handles, width \in Dim, height \in Dim, filter \in SomeFilters :
        Transform("resize_to_fit", handle, Params(0, 0, width, height, to_filter_type(filter)))

\* The rectangles enumerated start inside the image, so the crop is not empty.
fast_image_crop ==
    \E handle \in Handles, x \in 0 .. MaxDim - 1, y \in 0 .. MaxDim - 1, width \in Dim, height \in Dim :
        /\ handle # NULL => x < heap[handle].width /\ y < heap[handle].height
        /\ Transform("crop", handle, Params(x, y, width, height, ""))

fast_image_rotate_90 == \E handle \in Handles : Transform("rotate_90", handle, NoParams)

fast_image_rotate_180 == \E handle \in Handles : Transform("rotate_180", handle, NoParams)

fast_image_rotate_270 == \E handle \in Handles : Transform("rotate_270", handle, NoParams)

fast_image_flip_horizontal == \E handle \in Handles : Transform("flip_horizontal", handle, NoParams)

fast_image_flip_vertical == \E handle \in Handles : Transform("flip_vertical", handle, NoParams)

fast_image_blur ==
    \E handle \in Handles, sigma \in Amount : Transform("blur", handle, Params(sigma, 0, 0, 0, ""))

fast_image_brightness ==
    \E handle \in Handles, value \in Amount : Transform("brightness", handle, Params(value, 0, 0, 0, ""))

fast_image_contrast ==
    \E handle \in Handles, c \in Amount : Transform("contrast", handle, Params(c, 0, 0, 0, ""))

fast_image_grayscale == \E handle \in Handles : Transform("grayscale", handle, NoParams)

\* `&mut *(handle as *mut DynamicImage)`, inverted in place
fast_image_invert ==
    \E handle \in Handles :
        LET args == ArgClass(handle = NULL, FALSE, "")
        IN  IF handle = NULL
            THEN Rejected("invert", handle, args, InvalidPointer)
            ELSE /\ heap' = [heap EXCEPT ![handle] = invert(heap[handle])]
                 /\ Ret(Call("invert", handle, args, Success, NULL, POISON, "invert"))
                 /\ UNCHANGED <<owned, bufs, outBufs>>

Next ==
    \/ fast_image_free_string
    \/ fast_image_free_buffer
    \/ fast_image_free
    \/ fast_image_load
    \/ fast_image_load_from_memory
    \/ fast_image_load_from_memory_with_format
    \/ fast_image_guess_format
    \/ fast_image_save
    \/ fast_image_encode
    \/ fast_image_get_metadata
    \/ fast_image_resize
    \/ fast_image_resize_exact
    \/ fast_image_resize_to_fit
    \/ fast_image_crop
    \/ fast_image_rotate_90
    \/ fast_image_rotate_180
    \/ fast_image_rotate_270
    \/ fast_image_flip_horizontal
    \/ fast_image_flip_vertical
    \/ fast_image_blur
    \/ fast_image_brightness
    \/ fast_image_contrast
    \/ fast_image_grayscale
    \/ fast_image_invert

Spec == Init /\ [][Next]_vars

\* ------------------------------------------- the mappings, applied alone
\* Each action applies one mapping of api.rs to inputs drawn from its whole
\* domain (two inputs where the claim compares two) and records the results.
main == <<heap, owned, bufs, outBufs, last, thr, scratch, mine, expect>>

probe_to_image_format ==
    \E t \in ImageFormatEnum, t2 \in ImageFormatEnum :
        /\ probe' = [NoProbe EXCEPT !.fn = "to_image_format", !.tag = t, !.tag2 = t2,
                                    !.format = to_image_format(t),
                                    !.format2 = to_image_format(t2),
                                    !.back = from_image_format(to_image_format(t))]
        /\ UNCHANGED main

probe_from_image_format ==
    \E f \in ImageFormat :
        /\ probe' = [NoProbe EXCEPT !.fn = "from_image_format", !.format = f,
                                    !.back = from_image_format(f)]
        /\ UNCHANGED main

probe_to_filter_type ==
    \E t \in FilterTypeEnum, t2 \in FilterTypeEnum :
        /\ probe' = [NoProbe EXCEPT !.fn = "to_filter_type", !.tag = t, !.tag2 = t2,
                                    !.format = to_filter_type(t),
                                    !.format2 = to_filter_type(t2)]
        /\ UNCHANGED main

probe_error_to_code ==
    \E e \in ImageError, e2 \in ImageError :
        /\ probe' = [NoProbe EXCEPT !.fn = "error_to_code", !.err = e, !.err2 = e2,
                                    !.code = error_to_code(e), !.code2 = error_to_code(e2)]
        /\ UNCHANGED main

BridgeNext ==
    \/ probe_to_image_format
    \/ probe_from_image_format
    \/ probe_to_filter_type
    \/ probe_error_to_code

BridgeSpec == Init /\ [][BridgeNext]_vars

\* ------------------------------------------------------------ two threads
\* Two threads call the boundary with no synchronisation, each on the
\* handles it holds.  A call is two steps: it borrows the image behind its
\* handle into its locals, then runs the api call on the borrowed image and
\* returns.  The allocator is the process's (thread-safe) one: an allocation
\* or a free is one step.  seq and expect are the results and the images of
\* the same calls run one at a time.
ConcInit ==
    /\ probe = NoProbe
    /\ last = Call("init", NULL, "ok", NoCode, NULL, POISON, "none")
    /\ bufs = <<>>
    /\ outBufs = {}
    /\ heap \in [{1, 2} -> Decoded]
    /\ owned = {1, 2}
    /\ expect = heap
    /\ mine = [t \in Threads |-> {t}]
    /\ thr = [t \in Threads |-> Idle]
    /\ scratch = [t \in Threads |-> <<>>]

\* Every call's locals in one static cell
Slot_static(t) == 1

\* The locals of a call (`let img`) live on the calling thread's stack
Slot(t) == t

ConcTransforms == {"grayscale", "rotate_90"}
BorrowOps == {"invert", "get_metadata", "encode"} \cup ConcTransforms

\* `&*(handle as *const DynamicImage)` / `&mut *(handle as *mut DynamicImage)`
c_borrow(t) ==
    /\ thr[t].pc = "idle"
    /\ \E op \in BorrowOps, h \in mine[t] :
        /\ thr' = [thr EXCEPT ![t] = [Idle EXCEPT !.pc = "borrowed", !.op = op, !.h = h]]
        /\ scratch' = [scratch EXCEPT ![Slot(t)] = borrow(heap, h)]
    /\ UNCHANGED <<heap, owned, bufs, outBufs, last, probe, mine, expect>>

Finish(t, res, seq) ==
    /\ thr' = [thr EXCEPT ![t] = [@ EXCEPT !.pc = "idle", !.res = res, !.seq = seq]]
    /\ scratch' = [scratch EXCEPT ![Slot(t)] = <<>>]
    /\ UNCHANGED <<last, probe>>

InFlight(t, ops) ==
    /\ thr[t].pc = "borrowed"
    /\ thr[t].op \in ops
    /\ scratch[Slot(t)] # <<>>

c_invert(t) ==
    /\ InFlight(t, {"invert"})
    /\ heap' = [heap EXCEPT ![thr[t].h] = invert(scratch[Slot(t)][1])]
    /\ expect' = [expect EXCEPT ![thr[t].h] = invert(expect[thr[t].h])]
    /\ Finish(t, Res(Success, NULL, POISON, <<>>), Res(Success, NULL, POISON, <<>>))
    /\ UNCHANGED <<owned, bufs, outBufs, mine>>

c_get_metadata(t) ==
    /\ InFlight(t, {"get_metadata"})
    /\ Finish(t, Res(Success, NULL, get_metadata(scratch[Slot(t)][1]), <<>>),
                 Res(Success, NULL, get_metadata(expect[thr[t].h]), <<>>))
    /\ UNCHANGED <<heap, owned, bufs, outBufs, mine, expect>>

c_transform(t) ==
    /\ InFlight(t, ConcTransforms)
    /\ \E a \in Box_new(heap) :
        /\ heap' = Box_into_raw(heap, a, apply(thr[t].op, scratch[Slot(t)][1], NoParams))
        /\ expect' = Box_into_raw(expect, a, apply(thr[t].op, expect[thr[t].h], NoParams))
        /\ owned' = owned \cup {a}
        /\ mine' = [mine EXCEPT ![t] = @ \cup {a}]
        /\ Finish(t, Res(NoCode, a, POISON, <<>>), Res(NoCode, a, POISON, <<>>))
    /\ UNCHANGED <<bufs, outBufs>>

c_encode(t) ==
    /\ InFlight(t, {"encode"})
    /\ \E format \in SomeFormats :
        \E r \in encode_image(scratch[Slot(t)][1], to_image_format(format)) :
            IF r.ok
            THEN \E ptr \in BufAddr \ DOMAIN bufs :
                    /\ bufs' = [x \in DOMAIN bufs \cup {ptr} |->
                                   IF x = ptr THEN into_boxed_slice(r.len, r.cap) ELSE bufs[x]]
                    /\ outBufs' = outBufs \cup {encode_out(r, ptr)}
                    /\ Finish(t, Res(Success, NULL, encode_out(r, ptr), scratch[Slot(t)]),
                                 Res(Success, NULL, encode_out(r, ptr), <<expect[thr[t].h]>>))
            ELSE /\ Finish(t, Res(error_to_code(r.err), NULL, POISON, scratch[Slot(t)]),
                              Res(error_to_code(r.err), NULL, POISON, <<expect[thr[t].h]>>))
                 /\ UNCHANGED <<bufs, outBufs>>
    /\ UNCHANGED <<heap, owned, mine, expect>>

c_free_buffer(t) ==
    /\ thr[t].pc = "idle"
    /\ thr[t].op = "encode" /\ thr[t].res.out \in outBufs
    /\ bufs' \in Vec_from_raw_parts_drop(bufs, thr[t].res.out[1], thr[t].res.out[2],
                                         thr[t].res.out[2])
    /\ outBufs' = outBufs \ {thr[t].res.out}
    /\ thr' = [thr EXCEPT ![t] = [Idle EXCEPT !.op = "free_buffer"]]
    /\ UNCHANGED <<heap, owned, last, probe, scratch, mine, expect>>

c_free(t) ==
    /\ thr[t].pc = "idle"
    /\ \E h \in mine[t] :
        /\ heap' = Box_from_raw_drop(heap, h)
        /\ expect' = Box_from_raw_drop(expect, h)
        /\ owned' = owned \ {h}
        /\ mine' = [mine EXCEPT ![t] = @ \ {h}]
        /\ thr' = [thr EXCEPT ![t] = [Idle EXCEPT !.op = "free", !.h = h]]
    /\ UNCHANGED <<bufs, outBufs, last, probe, scratch>>

c_load(t) ==
    /\ thr[t].pc = "idle"
    /\ \E r \in load_image_from_memory("png") :
        IF r.ok
        THEN \E a \in Box_new(heap) :
                /\ heap' = Box_into_raw(heap, a, r.img)
                /\ expect' = Box_into_raw(expect, a, r.img)
                /\ owned' = owned \cup {a}
                /\ mine' = [mine EXCEPT ![t] = @ \cup {a}]
                /\ thr' = [thr EXCEPT ![t] = [Idle EXCEPT !.op = "load_from_memory",
                                                          !.res = Res(NoCode, a, POISON, <<>>),
                                                          !.seq = Res(NoCode, a, POISON, <<>>)]]
        ELSE /\ thr' = [thr EXCEPT ![t] = [Idle EXCEPT !.op = "load_from_memory"]]
             /\ UNCHANGED <<heap, owned, mine, expect>>
    /\ UNCHANGED <<bufs, outBufs, last, probe, scratch>>

ConcNext ==
    \E t \in Threads :
        \/ c_borrow(t)
        \/ c_invert(t)
        \/ c_get_metadata(t)
        \/ c_transform(t)
        \/ c_encode(t)
        \/ c_free_buffer(t)
        \/ c_free(t)
        \/ c_load(t)

ConcSpec == ConcInit /\ [][ConcNext]_vars

\* ------------------------------------------------------------------ claims
\* The failure categories error_to_code names
Supported == {"Decoding", "Encoding", "IoError", "Limits", "Unsupported"}

Exposed == {"Png", "Jpeg", "Gif", "WebP", "Bmp", "Ico", "Tiff"}

\* C9: the enum bridge is total and injective: each of the 7 format tags maps
\* to an internal format and each of the 5 filter tags to an internal filter,
\* different tags to different variants; from_image_format undoes
\* to_image_format on every tag and answers None for every internal format
\* the boundary does not expose.
C9_EnumBridgeTotalInjective ==
    /\ probe.fn = "to_image_format" =>
        /\ probe.format \in Exposed
        /\ probe.tag # probe.tag2 => probe.format # probe.format2
        /\ probe.back = probe.tag
    /\ probe.fn = "to_filter_type" =>
        /\ probe.format \in FilterType
        /\ probe.tag # probe.tag2 => probe.format # probe.format2
    /\ probe.fn = "from_image_format" =>
        /\ probe.format \notin Exposed => probe.back = NONE
        /\ probe.format \in Exposed => probe.back \in ImageFormatEnum

\* C9's case: two different tags were mapped and the first mapped back
C9_Witness ==
    /\ probe.fn = "to_image_format"
    /\ probe.tag = Ico /\ probe.tag2 = Bmp
    /\ probe.format = "Ico" /\ probe.format2 = "Bmp"
    /\ probe.back = Ico

StatusOps == {"guess_format", "save", "encode", "get_metadata", "invert"}
LoadOps == {"load", "load_from_memory", "load_from_memory_with_format"}

\* C1: a transform given the null handle returns the null handle and creates
\* no handle: the heap and the caller's handles are what they were.
C1_NullInNullOut ==
    [][(last'.op \in TransformOps /\ last'.h = NULL)
           => (last'.ret = NULL /\ heap' = heap /\ owned' = owned)]_vars

\* C1's case: a transform was given the null handle while a handle was live
C1_Witness ==
    /\ last.op = "resize_exact" /\ last.h = NULL /\ last.ret = NULL
    /\ owned # {}

\* C2: a guess_format, encode or get_metadata call that returns a code other
\* than Success leaves its output slots as they were before the call.
C2_OutputsUnwrittenOnFailure ==
    (last.op \in {"guess_format", "encode", "get_metadata"} /\ last.code # Success)
        => last.out = POISON

\* C2's case: the encoder failed on valid arguments
C2_Witness ==
    /\ last.op = "encode" /\ last.args = "ok" /\ last.code = EncodingError
    /\ last.out = POISON

\* C3: every handle the caller holds is the address of a live image and every
\* live image is held by the caller; a held handle stops being live only in
\* the fast_image_free call on it; no call returns a handle the caller
\* already holds.
C3_HandlesLiveUntilFreed ==
    /\ [](owned = DOMAIN heap)
    /\ [][\A h \in owned :
              (h \notin DOMAIN heap' \/ h \notin owned') => (last'.op = "free" /\ last'.h = h)]_vars
    /\ [][last'.ret # NULL => last'.ret \notin owned]_vars

\* C3's case: one handle was freed while another stays live
C3_Witness ==
    /\ last.op = "free" /\ last.h # NULL /\ last.h \notin DOMAIN heap
    /\ owned # {} /\ owned = DOMAIN heap

\* C4: a transform on a live handle H returns a new handle other than H and
\* leaves H live with the image it had (so the same metadata); the handle
\* resize_exact(H, w, h) returns reports width w and height h.
C4_TransformLeavesInput ==
    [][/\ (last'.op \in TransformOps /\ last'.h # NULL) =>
             /\ last'.ret # NULL /\ last'.ret # last'.h
             /\ last'.ret \notin DOMAIN heap /\ last'.ret \in DOMAIN heap'
             /\ last'.h \in DOMAIN heap'
             /\ heap'[last'.h] = heap[last'.h]
             /\ get_metadata(heap'[last'.h]) = get_metadata(heap[last'.h])
       /\ \A handle \in owned, w \in Dim, h \in Dim, f \in SomeFilters :
             Transform("resize_exact", handle, Params(0, 0, w, h, to_filter_type(f))) =>
                 /\ get_metadata(heap'[last'.ret])[1] = w
                 /\ get_metadata(heap'[last'.ret])[2] = h]_vars

\* C4's case: resize_exact made a 2x1 image of a 1x2 image
C4_Witness ==
    /\ last.op = "resize_exact" /\ last.h # NULL /\ last.ret # NULL
    /\ last.h \in DOMAIN heap /\ last.ret \in DOMAIN heap
    /\ heap[last.h].width = 1 /\ heap[last.h].height = 2
    /\ heap[last.ret].width = 2 /\ heap[last.ret].height = 1

C6_ReleaseNullNoop ==
    [][(\/ last'.op = "free" /\ last'.h = NULL
        \/ last'.op = "free_string"
        \/ last'.op = "free_buffer" /\ (last'.buf[1] = NULL \/ last'.buf[2] = 0))
           => (heap' = heap /\ owned' = owned /\ bufs' = bufs)]_vars

\* C6's case: free_buffer was given a live buffer's pointer with length 0
C6_Witness ==
    /\ last.op = "free_buffer" /\ last.buf[1] # NULL /\ last.buf[2] = 0
    /\ last.buf[1] \in DOMAIN bufs /\ owned # {}

\* C7: a call with a null pointer or an empty span returns InvalidPointer
\* (status-code operations) or null (handle-returning operations), save with
\* a path that is not UTF-8 returns InvalidPath; none of these calls reaches
\* the collaborator, creates a handle or a buffer, touches a file or writes
\* an output slot.
C7_ValidateBeforeDelegate ==
    [][last'.args # "ok" =>
          /\ last'.collab = "none" /\ last'.file = "" /\ last'.out = POISON
          /\ last'.ret = NULL
          /\ heap' = heap /\ owned' = owned /\ bufs' = bufs
          /\ (last'.op \in StatusOps /\ last'.args \in {"null", "zero_len"})
                 => last'.code = InvalidPointer
          /\ (last'.op = "save" /\ last'.args = "non_utf8") => last'.code = InvalidPath]_vars

\* C7's case: save was given a live handle and a path that is not UTF-8
C7_Witness ==
    /\ last.op = "save" /\ last.args = "non_utf8" /\ last.h # NULL
    /\ last.code = InvalidPath /\ last.collab = "none"

C11_ResizeToFitKeepsAspect ==
    [][\A handle \in owned, w \in Dim, h \in Dim, f \in SomeFilters :
          Transform("resize_to_fit", handle, Params(0, 0, w, h, to_filter_type(f))) =>
              /\ heap'[last'.ret].width <= w
              /\ heap'[last'.ret].height <= h
              /\ LET a == heap'[last'.ret].width * heap[handle].height
                     b == heap'[last'.ret].height * heap[handle].width
                 IN  2 * (Max(a, b) - Min(a, b))
                         <= heap[handle].width + heap[handle].height]_vars

\* C11's case: resize_to_fit made a 1x2 image of a 2x1 image, where fitting
\* 2x1 into the 1x2 box gives 1x1
C11_Witness ==
    /\ last.op = "resize_to_fit" /\ last.h # NULL /\ last.ret # NULL
    /\ last.h \in DOMAIN heap /\ last.ret \in DOMAIN heap
    /\ heap[last.h].width = 2 /\ heap[last.h].height = 1
    /\ heap[last.ret].width = 1 /\ heap[last.ret].height = 2
    /\ resize_image(heap[last.h], 1, 2, "Nearest") # heap[last.ret]

====
